---- MODULE Spec2Model ----
(***************************************************************************)
(* Job-Finder: the filter / rank / deduplicate pipeline of                 *)
(* src/utils/filter_utils.py as driven by JobFinder in src/main.py.        *)
(*                                                                         *)
(* Postings are Python dicts: functions from a set of keys to values, so   *)
(* an absent key is a key outside DOMAIN.  Dicts live in a heap and lists  *)
(* hold references, so in-place updates (job['keyword_matches'] = ...,     *)
(* job['rank'] = i) are seen through every list that holds the dict.       *)
(* Text is TLA+ strings handled character by character (Len, SubSeq, \o).  *)
(* Time is an integer count of ticks, TicksPerHour ticks to the hour; each  *)
(* stage reads datetime.now() once, up to MaxDelay ticks after the last    *)
(* reading.  list(set(...)) yields the matches in any order.               *)
(***************************************************************************)
EXTENDS Integers, Sequences, FiniteSets, TLC

VARIABLES
  heap,           \* the dicts allocated so far; a reference is an index into heap
  jobs,           \* JobFinder.jobs: a list of references
  filtered_jobs,  \* JobFinder.filtered_jobs: a list of references
  pc,             \* the position of JobFinder.run
  now,            \* the clock: the last value datetime.now() returned
  collected,      \* history: JobFinder.jobs as handed to deduplicate_jobs
  filter_heap,    \* history: the heap when filter_jobs was called
  filter_now,     \* history: datetime.now() as read by filter_jobs
  filter_out,     \* history: the list filter_jobs returned
  rank_now,       \* history: datetime.now() as read by rank_jobs
  sort_key,       \* history: the key sorted() computed for each ranked dict
  export_calls,   \* history: the exporter calls made, each with its jobs and result
  export_path,    \* what JobFinder.run returned, once it has returned
  exit_status,    \* what main() returned, once it has returned
  attempt,        \* fetch_page: the loop variable
  fetch_pc,       \* fetch_page: the position of the call in progress
  fetch_url,      \* fetch_page: the url of the call in progress
  events,         \* history: the requests and sleeps of the call in progress
  fetch_calls,    \* history: the fetch_page calls that are over
  search_pc,      \* the position of steps 1 and 2 of run
  scraper_jobs,   \* the jobs list of each scraper: a list of references
  search_calls    \* history: the search calls made, each with the list it returned

fetch_vars == <<attempt, fetch_pc, fetch_url, events, fetch_calls>>

search_vars == <<search_pc, scraper_jobs, search_calls>>

run_vars == <<heap, jobs, filtered_jobs, pc, now, collected, filter_heap,
              filter_now, filter_out, rank_now, sort_key, export_calls,
              export_path, exit_status>>

vars == <<run_vars, fetch_vars, search_vars>>

(***************************************************************************)
(* Bounds of the model.                                                    *)
(***************************************************************************)
MaxJobs == 3
TicksPerHour == 2
MaxDelay == 1
MaxFetches == 2
MaxCompanies == 2

(***************************************************************************)
(* Program constants.                                                      *)
(***************************************************************************)
hours_back == 24
retry_attempts == 3
retry_delay == 5

JOB_LEVEL_KEYWORDS ==
  << "junior", "entry level", "entry-level", "graduate", "trainee",
     "einstieg", "anfänger", "abschluss", "berufseinsteiger",
     "einstiegsposition", "starter", "career starter", "fresh",
     "recent graduate", "no experience", "erfahrung nicht erforderlich" >>

TECHNICAL_KEYWORDS ==
  << "ai", "artificial intelligence", "machine learning", "ml",
     "data science", "data scientist", "python", "software development",
     "software engineer", "sde", "backend", "frontend", "fullstack",
     "web development", "neural network", "deep learning", "nlp",
     "computer vision", "tensorflow", "pytorch", "scikit-learn",
     "data analysis", "analytics" >>

german_states ==
  << "Baden-Württemberg", "Bayern", "Berlin", "Brandenburg", "Bremen",
     "Hamburg", "Hessen", "Mecklenburg-Vorpommern", "Niedersachsen",
     "Nordrhein-Westfalen", "Rheinland-Pfalz", "Saarland", "Sachsen",
     "Sachsen-Anhalt", "Schleswig-Holstein", "Thüringen", "Germany",
     "Deutschland", "DE" >>

NEGATIVE_KEYWORDS == << "senior", "lead", "principal", "architect", "manager" >>

(***************************************************************************)
(* Python values.                                                          *)
(***************************************************************************)
None == [type |-> "NoneType"]

\* a datetime, as the tick it denotes
datetime(t) == [type |-> "datetime", ticks |-> t]

\* a str stored where a datetime is expected (LinkedIn's raw <time datetime=...>)
str(s) == [type |-> "str", value |-> s]

\* run() has not returned yet
NotReturned == [type |-> "not returned"]

\* an int, as a value main() returns
int(n) == [type |-> "int", value |-> n]

\* dict.get(key, default)
get(d, key, default) == IF key \in DOMAIN d THEN d[key] ELSE default

\* d[key] = value
setitem(d, key, value) ==
  [k \in DOMAIN d \cup {key} |-> IF k = key THEN value ELSE d[k]]

\* bool(x) of the values a posted_date can hold
truthy(x) ==
  CASE x.type = "NoneType" -> FALSE
    [] x.type = "str" -> x.value # ""
    [] OTHER -> TRUE

(***************************************************************************)
(* str methods.                                                            *)
(***************************************************************************)
LowerMap ==
  [A |-> "a", B |-> "b", C |-> "c", D |-> "d", E |-> "e", F |-> "f",
   G |-> "g", H |-> "h", I |-> "i", J |-> "j", K |-> "k", L |-> "l",
   M |-> "m", N |-> "n", O |-> "o", P |-> "p", Q |-> "q", R |-> "r",
   S |-> "s", T |-> "t", U |-> "u", V |-> "v", W |-> "w", X |-> "x",
   Y |-> "y", Z |-> "z"] @@ ("Ä" :> "ä") @@ ("Ö" :> "ö") @@ ("Ü" :> "ü")

RECURSIVE lower(_)
\* str.lower()
lower(s) ==
  IF s = "" THEN ""
  ELSE LET c == SubSeq(s, 1, 1)
       IN  (IF c \in DOMAIN LowerMap THEN LowerMap[c] ELSE c)
             \o lower(SubSeq(s, 2, Len(s)))

WhiteSpace == {" ", "\t", "\n"}

RECURSIVE lstrip(_)
lstrip(s) ==
  IF s # "" /\ SubSeq(s, 1, 1) \in WhiteSpace
    THEN lstrip(SubSeq(s, 2, Len(s))) ELSE s

RECURSIVE rstrip(_)
rstrip(s) ==
  IF s # "" /\ SubSeq(s, Len(s), Len(s)) \in WhiteSpace
    THEN rstrip(SubSeq(s, 1, Len(s) - 1)) ELSE s

\* str.strip()
strip(s) == rstrip(lstrip(s))

\* sub in text
contains(text, sub) ==
  \E i \in 1..(Len(text) - Len(sub) + 1) : SubSeq(text, i, i + Len(sub) - 1) = sub

\* the characters the regular expression class \w matches
WordChars ==
  { "a", "b", "c", "d", "e", "f", "g", "h", "i", "j", "k", "l", "m", "n",
    "o", "p", "q", "r", "s", "t", "u", "v", "w", "x", "y", "z",
    "A", "B", "C", "D", "E", "F", "G", "H", "I", "J", "K", "L", "M", "N",
    "O", "P", "Q", "R", "S", "T", "U", "V", "W", "X", "Y", "Z",
    "0", "1", "2", "3", "4", "5", "6", "7", "8", "9", "_",
    "ä", "ö", "ü", "ß", "Ä", "Ö", "Ü" }

\* whether the character at position i of text is a word character
\* (positions outside the text are not)
is_word_at(text, i) ==
  i >= 1 /\ i <= Len(text) /\ SubSeq(text, i, i) \in WordChars

\* the regular expression \b matches between positions i-1 and i
word_boundary(text, i) == is_word_at(text, i - 1) # is_word_at(text, i)

\* mutant: the keyword searched as a plain substring, without the \b anchors
re_search_substring(keyword, text) ==
  \E i \in 1..(Len(text) - Len(keyword) + 1) :
     SubSeq(text, i, i + Len(keyword) - 1) = keyword

\* re.search(r'\b' + re.escape(keyword) + r'\b', text)
re_search_word(keyword, text) ==
  \E i \in 1..(Len(text) - Len(keyword) + 1) :
     /\ SubSeq(text, i, i + Len(keyword) - 1) = keyword
     /\ word_boundary(text, i)
     /\ word_boundary(text, i + Len(keyword))

\* [kw.lower() for kw in keywords]
lower_all(keywords) == [i \in 1..Len(keywords) |-> lower(keywords[i])]

\* f"{job_title} {job_description}".lower()
job_text(job_title, job_description) == lower(job_title \o " " \o job_description)

(***************************************************************************)
(* JobFilter                                                               *)
(***************************************************************************)
\* JobFilter.__init__: both keyword lists are case-folded once
job_level_keywords == lower_all(JOB_LEVEL_KEYWORDS)

technical_keywords == lower_all(TECHNICAL_KEYWORDS)

\* mutant: the seniority markers are checked first and override a level marker
is_entry_level_negative_first(job_title, job_description) ==
  LET text == job_text(job_title, job_description)
  IN  IF \E i \in 1..Len(NEGATIVE_KEYWORDS) : contains(text, NEGATIVE_KEYWORDS[i])
        THEN FALSE
        ELSE \E i \in 1..Len(job_level_keywords) : contains(text, job_level_keywords[i])

is_entry_level(job_title, job_description) ==
  LET text == job_text(job_title, job_description)
  IN  IF \E i \in 1..Len(job_level_keywords) : contains(text, job_level_keywords[i])
        THEN TRUE
        ELSE IF \E i \in 1..Len(NEGATIVE_KEYWORDS) : contains(text, NEGATIVE_KEYWORDS[i])
               THEN FALSE
               ELSE FALSE

RECURSIVE matches_from(_, _, _)
\* the loop of matches_technical_keywords from keyword i on: the list `matches`
matches_from(keywords, text, i) ==
  IF i > Len(keywords) THEN <<>>
  ELSE IF re_search_word(keywords[i], text)
         THEN <<keywords[i]>> \o matches_from(keywords, text, i + 1)
         ELSE matches_from(keywords, text, i + 1)

\* set(matches)
set_of(matches) == { matches[i] : i \in 1..Len(matches) }

\* the set built by set(matches)
technical_matches(job_title, job_description) ==
  set_of(matches_from(technical_keywords, job_text(job_title, job_description), 1))

\* mutant: the names compared as written, against the case-folded location
is_german_location_case_sensitive(location) ==
  LET location_lower == lower(location)
  IN  \E i \in 1..Len(german_states) : contains(location_lower, german_states[i])

is_german_location(location) ==
  LET location_lower == lower(location)
  IN  \E i \in 1..Len(german_states) : contains(location_lower, lower(german_states[i]))

(***************************************************************************)
(* The postings the scrapers hand over.                                    *)
(***************************************************************************)
\* del d[key]
without(d, key) == [k \in DOMAIN d \ {key} |-> d[k]]

JuniorAI ==
  [title |-> "Junior AI Engineer", company |-> "Acme", url |-> "https://x/1",
   posted_date |-> datetime(0), board |-> "LinkedIn",
   location |-> "Berlin, Germany"]

GraduateDS ==
  [title |-> "Graduate Data Scientist", description |-> "Python",
   company |-> "Beta", url |-> "https://x/2", posted_date |-> None,
   board |-> "Stepstone", location |-> "Bayern"]

JuniorML ==
  [title |-> "Junior ML Engineer", company |-> "Beta", url |-> "https://x/3",
   posted_date |-> datetime(0 - 6 * TicksPerHour), board |-> "XING",
   location |-> "Germany"]

Trainee ==
  [title |-> "Trainee", company |-> "Gamma", url |-> "https://x/4",
   location |-> "Hamburg"]

\* the batch of a run is a sequence of these
Postings ==
  { JuniorAI,
    setitem(JuniorAI, "title", "junior ai engineer"),
    setitem(JuniorAI, "company", "Acme "),
    setitem(JuniorAI, "location", "Paris, France"),
    setitem(JuniorAI, "url", ""),
    without(JuniorAI, "url"),
    setitem(JuniorAI, "posted_date", datetime(0 - hours_back * TicksPerHour)),
    setitem(JuniorAI, "posted_date", str("2024-05-01T10:00:00.000Z")),
    GraduateDS,
    setitem(GraduateDS, "title", "Senior Data Scientist"),
    JuniorML,
    Trainee }

\* a key that a dict built by posting(...) leaves out
ABSENT == "<absent>"

\* the same for the posted_date key
ABSENT_DATE == [type |-> "absent"]

\* a location that is not a str (an int, say): location.lower() raises
NOT_A_STR == "<not a str>"

Titles ==
  { "Junior AI Engineer", "Python Trainee", "Senior/Junior Data Scientist",
    "Entry", "GRADUATE MACHINE LEARNING AI DATA SCIENCE", "Senior Data Scientist",
    "Junior Developer", ABSENT }

Descriptions == { "Python", "level NLP", ABSENT }

Locations ==
  { "Berlin, Germany", "Paris, France", "Stockholm, Sweden", NOT_A_STR, ABSENT }

PostedDates ==
  { None, ABSENT_DATE, str("2024-05-01T10:00:00.000Z"), str("") }
  \cup { datetime(t) : t \in
           { TicksPerHour, 0,
             1 - 1 * TicksPerHour, 0 - 1 * TicksPerHour,
             1 - 6 * TicksPerHour, 0 - 6 * TicksPerHour,
             1 - 12 * TicksPerHour, 0 - 12 * TicksPerHour,
             0 - hours_back * TicksPerHour, 0 - hours_back * TicksPerHour - 1 } }

\* the dict with the given fields, a field given as ABSENT left out
posting(title, description, location, posted_date) ==
  LET text == [title |-> title, description |-> description, location |-> location]
      present == { k \in DOMAIN text : text[k] # ABSENT }
      dated == IF posted_date.type = "absent" THEN {} ELSE {"posted_date"}
  IN  [k \in present \cup {"company", "url", "board"} \cup dated |->
         CASE k \in present -> text[k]
           [] k = "company" -> "Acme"
           [] k = "url" -> "https://x/1"
           [] k = "board" -> "Indeed"
           [] k = "posted_date" -> posted_date]

\* the dict a scraper would build without company, url and board
bare(p) == without(without(without(p, "company"), "url"), "board")

\* the batch of a run of one posting is one of these
SinglePostings ==
  LET complete == { posting(title, description, location, posted_date) :
                      title \in Titles, description \in Descriptions,
                      location \in Locations, posted_date \in PostedDates }
  IN  complete \cup { bare(p) : p \in complete }

\* every posting a run can be given
AllPostings == Postings \cup SinglePostings

(***************************************************************************)
(* The classifier's answers for the texts of AllPostings, evaluated once   *)
(* per text.                                                               *)
(***************************************************************************)
TitleDescriptions ==
  { <<get(p, "title", ""), get(p, "description", "")>> : p \in AllPostings }

entry_level == [td \in TitleDescriptions |-> is_entry_level(td[1], td[2])]

keyword_set == [td \in TitleDescriptions |-> technical_matches(td[1], td[2])]

TitleSet == { get(p, "title", "") : p \in AllPostings }

german_location ==
  [location \in { get(p, "location", "") : p \in AllPostings } |->
     is_german_location(location)]

\* mutant: the AI test of the title looks for whole words, as the classifier does
title_bonus_whole_word(title_lower) ==
    (IF re_search_word("ai", title_lower)
          \/ re_search_word("artificial intelligence", title_lower)
       THEN 5 ELSE 0)
  + (IF contains(title_lower, "data scientist") \/ contains(title_lower, "data science")
       THEN 5 ELSE 0)
  + (IF contains(title_lower, "machine learning") \/ contains(title_lower, "ml engineer")
       THEN 5 ELSE 0)

\* mutant: the three title checks chained with elif, so at most one bonus
title_bonus_elif(title_lower) ==
  IF contains(title_lower, "ai") \/ contains(title_lower, "artificial intelligence")
    THEN 5
  ELSE IF contains(title_lower, "data scientist") \/ contains(title_lower, "data science")
    THEN 5
  ELSE IF contains(title_lower, "machine learning") \/ contains(title_lower, "ml engineer")
    THEN 5
  ELSE 0

\* the three title bonuses of calculate_score
title_bonus(title_lower) ==
    (IF contains(title_lower, "ai") \/ contains(title_lower, "artificial intelligence")
       THEN 5 ELSE 0)
  + (IF contains(title_lower, "data scientist") \/ contains(title_lower, "data science")
       THEN 5 ELSE 0)
  + (IF contains(title_lower, "machine learning") \/ contains(title_lower, "ml engineer")
       THEN 5 ELSE 0)

title_bonus_of == [title \in TitleSet |-> title_bonus(lower(title))]

\* timedelta(hours=hours), in ticks
timedelta_hours(hours) == hours * TicksPerHour

\* mutant: a posting without a date is taken as not recent
is_recent_none_excluded(posted_date, hours, t) ==
  IF posted_date.type = "NoneType" THEN FALSE
  ELSE IF posted_date.type = "datetime"
         THEN posted_date.ticks >= t - timedelta_hours(hours)
         ELSE TRUE

\* mutant: the cutoff itself is not recent any more
is_recent_strict(posted_date, hours, t) ==
  IF posted_date.type = "NoneType" THEN TRUE
  ELSE IF posted_date.type = "datetime"
         THEN posted_date.ticks > t - timedelta_hours(hours)
         ELSE TRUE

\* mutant: a failed comparison excludes the posting
is_recent_fail_closed(posted_date, hours, t) ==
  IF posted_date.type = "NoneType" THEN TRUE
  ELSE IF posted_date.type = "datetime"
         THEN posted_date.ticks >= t - timedelta_hours(hours)
         ELSE FALSE

\* t is the value datetime.now() returns in this call
is_recent(posted_date, hours, t) ==
  IF posted_date.type = "NoneType" THEN TRUE
  ELSE IF posted_date.type = "datetime"
         THEN posted_date.ticks >= t - timedelta_hours(hours)
         ELSE TRUE   \* str >= datetime raises TypeError, caught: fail-open

\* list(set(matches)): the elements of the set, once each, in the order the
\* interpreter's string hashing gives them (not fixed by the program)
list_of_set(S) ==
  { l \in [1..Cardinality(S) -> S] :
      \A i, j \in 1..Cardinality(S) : i # j => l[i] # l[j] }

matches_technical_keywords(job_title, job_description) ==
  list_of_set(keyword_set[<<job_title, job_description>>])

\* mutant: the location check left out
passes_checks_no_location(job, hours, t) ==
  /\ entry_level[<<get(job, "title", ""), get(job, "description", "")>>]
  /\ is_recent(get(job, "posted_date", None), hours, t)

\* the three checks of filter_jobs that come before the keyword match
passes_checks(job, hours, t) ==
  /\ entry_level[<<get(job, "title", ""), get(job, "description", "")>>]
  /\ german_location[get(job, "location", "")]
  /\ is_recent(get(job, "posted_date", None), hours, t)

\* the body of filter_jobs' loop raises for this job: it is entry-level, so
\* is_german_location is called, and location.lower() does not exist
filter_raises(job) ==
  /\ entry_level[<<get(job, "title", ""), get(job, "description", "")>>]
  /\ get(job, "location", "") = NOT_A_STR

RECURSIVE filter_from_append_twice(_, _, _, _, _, _)
\* mutant: an accepted job is appended to filtered_jobs twice
filter_from_append_twice(h, js, i, filtered, hours, t) ==
  IF i > Len(js) THEN { [heap |-> h, filtered |-> filtered] }
  ELSE LET job == h[js[i]]
       IN  IF filter_raises(job)    \* except Exception: log a warning, continue
             THEN filter_from_append_twice(h, js, i + 1, filtered, hours, t)
           ELSE IF ~passes_checks(job, hours, t)
             THEN filter_from_append_twice(h, js, i + 1, filtered, hours, t)
             ELSE UNION {
                    IF matches # <<>>
                      THEN filter_from_append_twice(
                             [h EXCEPT ![js[i]] = setitem(job, "keyword_matches", matches)],
                             js, i + 1, filtered \o <<js[i], js[i]>>, hours, t)
                      ELSE filter_from_append_twice(h, js, i + 1, filtered, hours, t)
                    : matches \in matches_technical_keywords(
                                    get(job, "title", ""), get(job, "description", "")) }

RECURSIVE filter_from_annotates_all(_, _, _, _, _, _)
\* mutant: keyword_matches is stored before the match list is tested
filter_from_annotates_all(h, js, i, filtered, hours, t) ==
  IF i > Len(js) THEN { [heap |-> h, filtered |-> filtered] }
  ELSE LET job == h[js[i]]
       IN  IF filter_raises(job)    \* except Exception: log a warning, continue
             THEN filter_from_annotates_all(h, js, i + 1, filtered, hours, t)
           ELSE IF ~passes_checks(job, hours, t)
             THEN filter_from_annotates_all(h, js, i + 1, filtered, hours, t)
             ELSE UNION {
                    LET annotated == [h EXCEPT ![js[i]] =
                                        setitem(job, "keyword_matches", matches)]
                    IN  IF matches # <<>>
                          THEN filter_from_annotates_all(
                                 annotated, js, i + 1, Append(filtered, js[i]), hours, t)
                          ELSE filter_from_annotates_all(
                                 annotated, js, i + 1, filtered, hours, t)
                    : matches \in matches_technical_keywords(
                                    get(job, "title", ""), get(job, "description", "")) }

RECURSIVE filter_from(_, _, _, _, _, _)
\* the loop of filter_jobs from position i on: every [heap, filtered] it can
\* end with
filter_from(h, js, i, filtered, hours, t) ==
  IF i > Len(js) THEN { [heap |-> h, filtered |-> filtered] }
  ELSE LET job == h[js[i]]
       IN  IF filter_raises(job)    \* except Exception: log a warning, continue
             THEN filter_from(h, js, i + 1, filtered, hours, t)
           ELSE IF ~passes_checks(job, hours, t)
             THEN filter_from(h, js, i + 1, filtered, hours, t)
             ELSE UNION {
                    IF matches # <<>>
                      THEN filter_from(
                             [h EXCEPT ![js[i]] = setitem(job, "keyword_matches", matches)],
                             js, i + 1, Append(filtered, js[i]), hours, t)
                      ELSE filter_from(h, js, i + 1, filtered, hours, t)
                    : matches \in matches_technical_keywords(
                                    get(job, "title", ""), get(job, "description", "")) }

filter_jobs(h, js, hours, t) == filter_from(h, js, 1, <<>>, hours, t)

\* mutant: the identifier the docstring describes ("based on URL and
\* company"), the title left out
identifier_url_company(job) ==
  << get(job, "url", ""), get(job, "company", ""), "" >>

identifier(job) ==
  << get(job, "url", ""), get(job, "company", ""), get(job, "title", "") >>

RECURSIVE dedup_from_forgetful(_, _, _, _, _)
\* mutant: a duplicate that is dropped also takes its identifier out of seen
dedup_from_forgetful(h, js, i, seen, unique_jobs) ==
  IF i > Len(js) THEN unique_jobs
  ELSE IF << get(h[js[i]], "url", ""), get(h[js[i]], "company", ""),
             get(h[js[i]], "title", "") >> \notin seen
         THEN dedup_from_forgetful(h, js, i + 1,
                seen \cup { << get(h[js[i]], "url", ""), get(h[js[i]], "company", ""),
                               get(h[js[i]], "title", "") >> },
                Append(unique_jobs, js[i]))
         ELSE dedup_from_forgetful(h, js, i + 1,
                seen \ { << get(h[js[i]], "url", ""), get(h[js[i]], "company", ""),
                            get(h[js[i]], "title", "") >> },
                unique_jobs)

RECURSIVE dedup_from(_, _, _, _, _)
\* the loop of deduplicate_jobs from position i on
dedup_from(h, js, i, seen, unique_jobs) ==
  IF i > Len(js) THEN unique_jobs
  ELSE IF identifier(h[js[i]]) \notin seen
         THEN dedup_from(h, js, i + 1, seen \cup {identifier(h[js[i]])},
                         Append(unique_jobs, js[i]))
         ELSE dedup_from(h, js, i + 1, seen, unique_jobs)

\* mutant: the last posting of each identifier is kept, not the first
deduplicate_jobs_last_wins(h, js) ==
  LET reversed(l) == [i \in 1..Len(l) |-> l[Len(l) + 1 - i]]
  IN  reversed(dedup_from(h, reversed(js), 1, {}, <<>>))

\* mutant: every posting is kept
deduplicate_jobs_keeps_all(h, js) == js

deduplicate_jobs(h, js) == dedup_from(h, js, 1, {}, <<>>)

\* job.get('posted_date') is truthy and datetime.now() - posted_date raises
\* TypeError (posted_date is a str)
score_raises(job) ==
  LET posted_date == get(job, "posted_date", None)
  IN  truthy(posted_date) /\ posted_date.type # "datetime"

\* mutant: the tier boundaries compared with <=
recency_bonus_inclusive(posted_date, t) ==
  IF ~truthy(posted_date) THEN 0
  ELSE LET age == t - posted_date.ticks
       IN  IF age <= 1 * TicksPerHour THEN 20
           ELSE IF age <= 6 * TicksPerHour THEN 15
           ELSE IF age <= 12 * TicksPerHour THEN 10
           ELSE 0

\* the recency bonus of calculate_score; hours_ago < n is age < n hours of ticks
recency_bonus(posted_date, t) ==
  IF ~truthy(posted_date) THEN 0
  ELSE LET age == t - posted_date.ticks
       IN  IF age < 1 * TicksPerHour THEN 20
           ELSE IF age < 6 * TicksPerHour THEN 15
           ELSE IF age < 12 * TicksPerHour THEN 10
           ELSE 0

\* rank_jobs.calculate_score, where it does not raise
calculate_score(job, t) ==
    Len(get(job, "keyword_matches", <<>>)) * 10
  + title_bonus_of[get(job, "title", "")]
  + recency_bonus(get(job, "posted_date", None), t)

\* mutant: reverse=True forgotten, the sort is ascending
insort_ascending(sorted_jobs, x, key) ==
  LET n == Cardinality({ k \in 1..Len(sorted_jobs) : key[sorted_jobs[k]] <= key[x] })
  IN  SubSeq(sorted_jobs, 1, n) \o <<x>> \o SubSeq(sorted_jobs, n + 1, Len(sorted_jobs))

\* mutant: x goes before the elements whose key equals its own, as in a
\* descending sort obtained by reversing an ascending one
insort_before_equal(sorted_jobs, x, key) ==
  LET n == Cardinality({ k \in 1..Len(sorted_jobs) : key[sorted_jobs[k]] > key[x] })
  IN  SubSeq(sorted_jobs, 1, n) \o <<x>> \o SubSeq(sorted_jobs, n + 1, Len(sorted_jobs))

\* one step of a stable descending sort: x goes after every element whose key
\* is greater than or equal to its own
insort(sorted_jobs, x, key) ==
  LET n == Cardinality({ k \in 1..Len(sorted_jobs) : key[sorted_jobs[k]] >= key[x] })
  IN  SubSeq(sorted_jobs, 1, n) \o <<x>> \o SubSeq(sorted_jobs, n + 1, Len(sorted_jobs))

RECURSIVE sorted_from(_, _, _, _)
sorted_from(js, key, i, acc) ==
  IF i > Len(js) THEN acc
  ELSE sorted_from(js, key, i + 1, insort(acc, js[i], key))

\* sorted(jobs, key=..., reverse=True): descending, equal keys in input order
sorted_reverse(js, key) == sorted_from(js, key, 1, <<>>)

RECURSIVE assign_ranks_from_zero(_, _, _)
\* mutant: enumerate(ranked_jobs) without the start value 1
assign_ranks_from_zero(h, ranked_jobs, i) ==
  IF i > Len(ranked_jobs) THEN h
  ELSE assign_ranks_from_zero(
         [h EXCEPT ![ranked_jobs[i]] = setitem(h[ranked_jobs[i]], "rank", i - 1)],
         ranked_jobs, i + 1)

RECURSIVE assign_ranks(_, _, _)
\* for i, job in enumerate(ranked_jobs, 1): job['rank'] = i
assign_ranks(h, ranked_jobs, i) ==
  IF i > Len(ranked_jobs) THEN h
  ELSE assign_ranks([h EXCEPT ![ranked_jobs[i]] = setitem(h[ranked_jobs[i]], "rank", i)],
                    ranked_jobs, i + 1)

\* the keys sorted() computes, one per dict of the list
score_keys(h, js, t) ==
  [id \in { js[i] : i \in 1..Len(js) } |-> calculate_score(h[id], t)]

(***************************************************************************)
(* DataProcessor                                                           *)
(***************************************************************************)
RECURSIVE join(_, _)
\* sep.join(l)
join(sep, l) ==
  IF l = <<>> THEN ""
  ELSE IF Len(l) = 1 THEN l[1]
  ELSE l[1] \o sep \o join(sep, Tail(l))

\* the texts clean_job_data strips, and strip() of each, computed once
StripTexts ==
  { get(p, key, "") : p \in AllPostings, key \in {"company", "title", "url"} }

stripped == [text \in StripTexts |-> strip(text)]

\* mutant: a missing board gets the default of company, title and url
clean_job_data_empty_board(job) ==
  [company_name    |-> stripped[get(job, "company", "")],
   job_title       |-> stripped[get(job, "title", "")],
   job_url         |-> stripped[get(job, "url", "")],
   posted_date     |-> get(job, "posted_date", None),
   job_board       |-> get(job, "board", ""),
   location        |-> get(job, "location", "Unknown"),
   job_level       |-> "Entry Level / Junior",
   keyword_matches |-> join(", ", get(job, "keyword_matches", <<>>))]

\* mutant: the three texts are copied without strip()
clean_job_data_untrimmed(job) ==
  [company_name    |-> get(job, "company", ""),
   job_title       |-> get(job, "title", ""),
   job_url         |-> get(job, "url", ""),
   posted_date     |-> get(job, "posted_date", None),
   job_board       |-> get(job, "board", "Unknown"),
   location        |-> get(job, "location", "Unknown"),
   job_level       |-> "Entry Level / Junior",
   keyword_matches |-> join(", ", get(job, "keyword_matches", <<>>))]

clean_job_data(job) ==
  [company_name    |-> stripped[get(job, "company", "")],
   job_title       |-> stripped[get(job, "title", "")],
   job_url         |-> stripped[get(job, "url", "")],
   posted_date     |-> get(job, "posted_date", None),
   job_board       |-> get(job, "board", "Unknown"),
   location        |-> get(job, "location", "Unknown"),
   job_level       |-> "Entry Level / Junior",
   keyword_matches |-> join(", ", get(job, "keyword_matches", <<>>))]

(***************************************************************************)
(* JobScraper.fetch_page: one GET with retries.  What a request does is    *)
(* the network's choice: it goes through, it fails with a                  *)
(* requests.RequestException (session.get raised, or raise_for_status did) *)
(* or it raises something else, which fetch_page does not catch.           *)
(***************************************************************************)
Urls == { "https://www.linkedin.com/jobs/search", "https://www.stepstone.de/jobs" }

RequestErrors == { "ConnectionError", "HTTPError" }

\* the Response session.get returned on attempt n
Response(url, n) == [type |-> "Response", url |-> url, attempt |-> n]

\* the call was left by an exception
Raised == [type |-> "raised"]

\* session.get(...) and raise_for_status() on attempt n, and how they ended
request(n, outcome) == [kind |-> "request", attempt |-> n, detail |-> outcome]

\* time.sleep(seconds) after attempt n
sleep(n, seconds) == [kind |-> "sleep", attempt |-> n, detail |-> seconds]

\* a fetch_page call that is over
fetch_call(url, evs, result) == [url |-> url, events |-> evs, result |-> result]

\* no fetch_page call was made yet
FetchIdle ==
  /\ attempt = 0
  /\ fetch_pc = "idle"
  /\ fetch_url = ""
  /\ events = <<>>
  /\ fetch_calls = <<>>

\* the call is over: its record is kept and the frame is gone
fetch_return(evs, result) ==
  /\ fetch_calls' = Append(fetch_calls, fetch_call(fetch_url, evs, result))
  /\ attempt' = 0
  /\ fetch_pc' = "idle"
  /\ fetch_url' = ""
  /\ events' = <<>>

\* fetch_page(url): for attempt in range(self.retry_attempts)
FetchPage(url) ==
  /\ fetch_pc = "idle"
  /\ Len(fetch_calls) < MaxFetches
  /\ IF 0 < retry_attempts
       THEN /\ attempt' = 0
            /\ fetch_pc' = "request"
            /\ fetch_url' = url
            /\ events' = <<>>
            /\ UNCHANGED fetch_calls
       ELSE /\ fetch_calls' = Append(fetch_calls, fetch_call(url, <<>>, None))
            /\ UNCHANGED <<attempt, fetch_pc, fetch_url, events>>
  /\ UNCHANGED <<run_vars, search_vars>>

\* the try body went through: return response
RequestSucceeds ==
  /\ fetch_pc = "request"
  /\ fetch_return(Append(events, request(attempt, "ok")),
                  Response(fetch_url, attempt))
  /\ UNCHANGED <<run_vars, search_vars>>

\* mutant: the except branch sleeps after every failed attempt
RequestFails_always_sleeps(error) ==
  /\ fetch_pc = "request"
  /\ events' = Append(events, request(attempt, error))
  /\ fetch_pc' = "sleep"
  /\ UNCHANGED <<attempt, fetch_url, fetch_calls>>
  /\ UNCHANGED <<run_vars, search_vars>>

\* except requests.RequestException: sleep if an attempt is left, else return None
RequestFails(error) ==
  /\ fetch_pc = "request"
  /\ IF attempt < retry_attempts - 1
       THEN /\ events' = Append(events, request(attempt, error))
            /\ fetch_pc' = "sleep"
            /\ UNCHANGED <<attempt, fetch_url, fetch_calls>>
       ELSE fetch_return(Append(events, request(attempt, error)), None)
  /\ UNCHANGED <<run_vars, search_vars>>

\* time.sleep(self.retry_delay), then the next iteration of the loop; a loop
\* that is exhausted falls off the end of fetch_page, which returns None
Sleep ==
  /\ fetch_pc = "sleep"
  /\ IF attempt + 1 < retry_attempts
       THEN /\ events' = Append(events, sleep(attempt, retry_delay))
            /\ attempt' = attempt + 1
            /\ fetch_pc' = "request"
            /\ UNCHANGED <<fetch_url, fetch_calls>>
       ELSE fetch_return(Append(events, sleep(attempt, retry_delay)), None)
  /\ UNCHANGED <<run_vars, search_vars>>

\* an exception that is no RequestException is not caught
RequestRaises ==
  /\ fetch_pc = "request"
  /\ fetch_return(Append(events, request(attempt, "Exception")), Raised)
  /\ UNCHANGED <<run_vars, search_vars>>

(***************************************************************************)
(* Steps 1 and 2 of run: _search_job_boards and _search_company_careers.   *)
(* Each scraper keeps its own jobs list; the orchestrator calls the        *)
(* scraper and then extends JobFinder.jobs with that list.  What a search  *)
(* finds is the network's choice.                                          *)
(***************************************************************************)
\* the scrapers in the order the orchestrator uses them
Scrapers ==
  << "linkedin_scraper", "stepstone_scraper", "xing_scraper", "indeed_scraper",
     "google_scraper", "google_web_scraper", "company_scraper" >>

\* the 'board' each scraper writes into its postings
board_of ==
  << "LinkedIn", "Stepstone", "XING", "Indeed", "Google Jobs",
     "Google Web Search", "Company Website" >>

\* the search calls the orchestrator makes on scraper n: one for a board, one
\* per company of GERMAN_COMPANIES for the company scraper
search_calls_of(n) == IF Scrapers[n] = "company_scraper" THEN MaxCompanies ELSE 1

\* what one search call can find
Batches == { <<>>, <<JuniorAI>>, <<JuniorAI, JuniorAI>> }

\* a search call, as recorded in search_calls
search_call(n, returned) == [scraper |-> n, jobs |-> returned]

\* no search was made yet
SearchIdle ==
  /\ search_pc = [scraper |-> 1, at |-> "search", calls |-> 0]
  /\ scraper_jobs = [n \in 1..Len(Scrapers) |-> <<>>]
  /\ search_calls = <<>>

\* after a search call: the next company, or the orchestrator's extend
after_search(n, calls) ==
  IF calls + 1 < search_calls_of(n)
    THEN [scraper |-> n, at |-> "search", calls |-> calls + 1]
    ELSE [scraper |-> n, at |-> "extend", calls |-> calls + 1]

\* mutant: search returns the postings without keeping them in self.jobs
ScraperSearch_keeps_nothing(batch) ==
  LET n == search_pc.scraper
      found == [i \in 1..Len(batch) |-> setitem(batch[i], "board", board_of[n])]
      returned == [i \in 1..Len(batch) |-> Len(heap) + i]
  IN  /\ search_pc.at = "search"
      /\ heap' = heap \o found
      /\ search_calls' = Append(search_calls, search_call(n, returned))
      /\ search_pc' = after_search(n, search_pc.calls)
      /\ UNCHANGED <<scraper_jobs, jobs, filtered_jobs, pc, now, collected,
                     filter_heap, filter_now, filter_out, rank_now, sort_key,
                     export_calls, export_path, exit_status, fetch_vars>>

\* search(...) / search_company_careers(...): jobs = []; jobs.append(job_data)
\* for each posting found; self.jobs.extend(jobs); return jobs
ScraperSearch(batch) ==
  LET n == search_pc.scraper
      found == [i \in 1..Len(batch) |-> setitem(batch[i], "board", board_of[n])]
      returned == [i \in 1..Len(batch) |-> Len(heap) + i]
  IN  /\ search_pc.at = "search"
      /\ heap' = heap \o found
      /\ scraper_jobs' = [scraper_jobs EXCEPT ![n] = @ \o returned]
      /\ search_calls' = Append(search_calls, search_call(n, returned))
      /\ search_pc' = after_search(n, search_pc.calls)
      /\ UNCHANGED <<jobs, filtered_jobs, pc, now, collected, filter_heap,
                     filter_now, filter_out, rank_now, sort_key, export_calls,
                     export_path, exit_status, fetch_vars>>

\* GoogleWebSearchScraper.search leaves early, by 'return jobs' when fetch_page
\* returned None or from 'except Exception', without self.jobs.extend(jobs);
\* no statement that can raise follows the first jobs.append, so jobs is []
GoogleWebSearchReturnsEarly ==
  LET n == search_pc.scraper
  IN  /\ search_pc.at = "search"
      /\ Scrapers[n] = "google_web_scraper"
      /\ search_calls' = Append(search_calls, search_call(n, <<>>))
      /\ search_pc' = after_search(n, search_pc.calls)
      /\ UNCHANGED <<scraper_jobs, run_vars, fetch_vars>>

\* self.jobs.extend(self.<scraper>.jobs), then the next scraper
ExtendJobs ==
  LET n == search_pc.scraper
  IN  /\ search_pc.at = "extend"
      /\ jobs' = jobs \o scraper_jobs[n]
      /\ search_pc' = IF n < Len(Scrapers)
                        THEN [scraper |-> n + 1, at |-> "search", calls |-> 0]
                        ELSE [scraper |-> n, at |-> "done", calls |-> search_pc.calls]
      /\ UNCHANGED <<heap, filtered_jobs, pc, now, collected, filter_heap,
                     filter_now, filter_out, rank_now, sort_key, export_calls,
                     export_path, exit_status, scraper_jobs, search_calls,
                     fetch_vars>>

(***************************************************************************)
(* JobFinder.run                                                           *)
(***************************************************************************)
\* mutant: main returns 0 whatever run() returned
main_always_zero(path) == int(0)

\* main(): 0 when run() returned a path, 1 when it returned None
\* ("Job search completed with errors")
main(path) == IF truthy(path) THEN int(0) ELSE int(1)

Init ==
  /\ heap = <<>>
  /\ jobs = <<>>
  /\ filtered_jobs = <<>>
  /\ pc = "search"
  /\ now = 0
  /\ collected = <<>>
  /\ filter_heap = <<>>
  /\ filter_now = 0
  /\ filter_out = <<>>
  /\ rank_now = 0
  /\ sort_key = <<>>
  /\ export_calls = <<>>
  /\ export_path = NotReturned
  /\ exit_status = NotReturned
  /\ FetchIdle
  /\ SearchIdle

\* steps 1 and 2: a scraper builds a posting and the orchestrator's
\* self.jobs.extend(...) puts a reference to it at the end of JobFinder.jobs
Collect(p) ==
  /\ pc = "search"
  /\ Len(jobs) < MaxJobs
  /\ heap' = Append(heap, p)
  /\ jobs' = Append(jobs, Len(heap) + 1)
  /\ UNCHANGED <<filtered_jobs, pc, now, collected, filter_heap, filter_now,
                 filter_out, rank_now, sort_key, export_calls, export_path,
                 exit_status, fetch_vars, search_vars>>

\* self.jobs = self.job_filter.deduplicate_jobs(self.jobs)
Deduplicate ==
  /\ pc = "search"
  /\ collected' = jobs
  /\ jobs' = deduplicate_jobs(heap, jobs)
  /\ pc' = "deduplicated"
  /\ UNCHANGED <<heap, filtered_jobs, now, filter_heap, filter_now, filter_out,
                 rank_now, sort_key, export_calls, export_path,
                 exit_status, fetch_vars, search_vars>>

\* self.filtered_jobs = self.job_filter.filter_jobs(self.jobs, hours=CONFIG['hours_back'])
FilterJobs ==
  /\ pc = "deduplicated"
  /\ \E delay \in 0..MaxDelay :
       \E r \in filter_jobs(heap, jobs, hours_back, now + delay) :
          /\ now' = now + delay
          /\ filter_now' = now + delay
          /\ filter_heap' = heap
          /\ heap' = r.heap
          /\ filtered_jobs' = r.filtered
          /\ filter_out' = r.filtered
  /\ pc' = "filtered"
  /\ UNCHANGED <<jobs, collected, rank_now, sort_key, export_calls, export_path,
                 exit_status, fetch_vars, search_vars>>

\* mutant: ranking an empty list raises, as max() of an empty list would
RankJobs_needs_jobs ==
  /\ pc = "filtered"
  /\ filtered_jobs # <<>>
  /\ ~\E i \in 1..Len(filtered_jobs) : score_raises(heap[filtered_jobs[i]])
  /\ \E delay \in 0..MaxDelay :
       LET key == score_keys(heap, filtered_jobs, now + delay)
           ranked_jobs == sorted_reverse(filtered_jobs, key)
       IN  /\ now' = now + delay
           /\ rank_now' = now + delay
           /\ sort_key' = key
           /\ heap' = assign_ranks(heap, ranked_jobs, 1)
           /\ filtered_jobs' = ranked_jobs
  /\ pc' = "ranked"
  /\ UNCHANGED <<jobs, collected, filter_heap, filter_now, filter_out,
                 export_calls, export_path,
                 exit_status, fetch_vars, search_vars>>

\* self.filtered_jobs = self.job_filter.rank_jobs(self.filtered_jobs)
RankJobs ==
  /\ pc = "filtered"
  /\ ~\E i \in 1..Len(filtered_jobs) : score_raises(heap[filtered_jobs[i]])
  /\ \E delay \in 0..MaxDelay :
       LET key == score_keys(heap, filtered_jobs, now + delay)
           ranked_jobs == sorted_reverse(filtered_jobs, key)
       IN  /\ now' = now + delay
           /\ rank_now' = now + delay
           /\ sort_key' = key
           /\ heap' = assign_ranks(heap, ranked_jobs, 1)
           /\ filtered_jobs' = ranked_jobs
  /\ pc' = "ranked"
  /\ UNCHANGED <<jobs, collected, filter_heap, filter_now, filter_out,
                 export_calls, export_path,
                 exit_status, fetch_vars, search_vars>>

\* calculate_score raises inside sorted(): nothing is ranked, and run() catches
\* the exception and returns None
RankJobsRaises ==
  /\ pc = "filtered"
  /\ \E i \in 1..Len(filtered_jobs) : score_raises(heap[filtered_jobs[i]])
  /\ pc' = "failed"
  /\ export_path' = None
  /\ exit_status' = main(None)
  /\ UNCHANGED <<heap, jobs, filtered_jobs, now, collected, filter_heap,
                 filter_now, filter_out, rank_now, sort_key, export_calls,
                 fetch_vars, search_vars>>

\* mutant: the clean loop runs over the list filter_jobs returned
CleanJobs_filter_output ==
  /\ pc = "ranked"
  /\ heap' = heap \o [i \in 1..Len(filter_out) |-> clean_job_data(heap[filter_out[i]])]
  /\ filtered_jobs' = [i \in 1..Len(filter_out) |-> Len(heap) + i]
  /\ pc' = "cleaned"
  /\ UNCHANGED <<jobs, now, collected, filter_heap, filter_now, filter_out,
                 rank_now, sort_key, export_calls, export_path,
                 exit_status, fetch_vars, search_vars>>

\* the clean loop: one new dict per ranked job, in order
CleanJobs ==
  /\ pc = "ranked"
  /\ heap' = heap \o [i \in 1..Len(filtered_jobs) |-> clean_job_data(heap[filtered_jobs[i]])]
  /\ filtered_jobs' = [i \in 1..Len(filtered_jobs) |-> Len(heap) + i]
  /\ pc' = "cleaned"
  /\ UNCHANGED <<jobs, now, collected, filter_heap, filter_now, filter_out,
                 rank_now, sort_key, export_calls, export_path,
                 exit_status, fetch_vars, search_vars>>

(***************************************************************************)
(* Export: src/utils/excel_exporter.py as called by _export_results.       *)
(* Whether openpyxl is there and whether the file can be written is the    *)
(* environment's choice.                                                   *)
(***************************************************************************)
excel_filename == "output/job_results.xlsx"
csv_filename == "output/job_results.csv"

\* ExcelExporter.export_jobs_to_excel: the path written, or None
export_jobs_to_excel(js, works) ==
  IF ~works THEN None
  ELSE IF js = <<>> THEN None
  ELSE str(excel_filename)

\* CSVExporter.export_jobs_to_csv: the path written, or None
export_jobs_to_csv(js, works) ==
  IF js = <<>> THEN None
  ELSE IF ~works THEN None
  ELSE str(csv_filename)

\* one exporter call, as recorded in export_calls
export_call(exporter, js, path) ==
  [exporter |-> exporter, jobs |-> js, path |-> path]

\* mutant: the CSV export is attempted whether or not the Excel export worked
ExportResults_csv_always ==
  /\ pc = "cleaned"
  /\ IF filtered_jobs = <<>>
       THEN /\ export_calls' = export_calls
            /\ export_path' = None
       ELSE \E excel_works \in BOOLEAN, csv_works \in BOOLEAN :
              LET excel_path == export_jobs_to_excel(filtered_jobs, excel_works)
                  csv_path == export_jobs_to_csv(filtered_jobs, csv_works)
                  excel_call == export_call("excel", filtered_jobs, excel_path)
                  csv_call == export_call("csv", filtered_jobs, csv_path)
              IN  /\ export_calls' = export_calls \o <<excel_call, csv_call>>
                  /\ export_path' = IF truthy(excel_path) THEN excel_path ELSE csv_path
  /\ exit_status' = main(export_path')
  /\ pc' = "done"
  /\ UNCHANGED <<heap, jobs, filtered_jobs, now, collected, filter_heap,
                 filter_now, filter_out, rank_now, sort_key, fetch_vars,
                 search_vars>>

\* step 4 of run: export_path = self._export_results(); run returns it and
\* main returns the exit status
ExportResults ==
  /\ pc = "cleaned"
  /\ IF filtered_jobs = <<>>
       THEN /\ export_calls' = export_calls
            /\ export_path' = None
       ELSE \E excel_works \in BOOLEAN, csv_works \in BOOLEAN :
              LET excel_path == export_jobs_to_excel(filtered_jobs, excel_works)
                  csv_path == export_jobs_to_csv(filtered_jobs, csv_works)
                  excel_call == export_call("excel", filtered_jobs, excel_path)
                  csv_call == export_call("csv", filtered_jobs, csv_path)
              IN  IF truthy(excel_path)
                    THEN /\ export_calls' = Append(export_calls, excel_call)
                         /\ export_path' = excel_path
                    ELSE /\ export_calls' = export_calls \o <<excel_call, csv_call>>
                         /\ export_path' = csv_path
  /\ exit_status' = main(export_path')
  /\ pc' = "done"
  /\ UNCHANGED <<heap, jobs, filtered_jobs, now, collected, filter_heap,
                 filter_now, filter_out, rank_now, sort_key, fetch_vars,
                 search_vars>>

Next ==
  \/ \E p \in Postings : Collect(p)
  \/ Deduplicate
  \/ FilterJobs
  \/ RankJobs
  \/ RankJobsRaises
  \/ CleanJobs
  \/ ExportResults

Spec == Init /\ [][Next]_vars

\* a run whose scrapers found exactly one posting
InitSingle ==
  /\ \E p \in SinglePostings : heap = <<p>>
  /\ jobs = <<1>>
  /\ filtered_jobs = <<>>
  /\ pc = "search"
  /\ now = 0
  /\ collected = <<>>
  /\ filter_heap = <<>>
  /\ filter_now = 0
  /\ filter_out = <<>>
  /\ rank_now = 0
  /\ sort_key = <<>>
  /\ export_calls = <<>>
  /\ export_path = NotReturned
  /\ exit_status = NotReturned
  /\ FetchIdle
  /\ SearchIdle

NextSingle ==
  \/ Deduplicate
  \/ FilterJobs
  \/ RankJobs
  \/ RankJobsRaises
  \/ CleanJobs
  \/ ExportResults

SpecSingle == InitSingle /\ [][NextSingle]_vars

\* the fetch_page calls of a scraper
NextFetch ==
  \/ \E url \in Urls : FetchPage(url)
  \/ RequestSucceeds
  \/ \E error \in RequestErrors : RequestFails(error)
  \/ Sleep
  \/ RequestRaises

SpecFetch == Init /\ [][NextFetch]_vars

\* steps 1 and 2 of run, search call by search call
NextSearch ==
  \/ \E batch \in Batches : ScraperSearch(batch)
  \/ GoogleWebSearchReturnsEarly
  \/ ExtendJobs

SpecSearch == Init /\ [][NextSearch]_vars

(***************************************************************************)
(* Properties.                                                             *)
(***************************************************************************)
\* the positions of a list
Positions(l) == 1..Len(l)

\* the references a list holds
Refs(l) == { l[i] : i \in Positions(l) }

RECURSIVE SubsequenceAt(_, _, _)
\* the elements of l at the positions in keep, from position i on, in order
SubsequenceAt(l, keep, i) ==
  IF i > Len(l) THEN <<>>
  ELSE IF i \in keep THEN <<l[i]>> \o SubsequenceAt(l, keep, i + 1)
  ELSE SubsequenceAt(l, keep, i + 1)

\* a field of a posting as the deduplicator reads it: absent counts as ""
FieldOrEmpty(job, key) == IF key \in DOMAIN job THEN job[key] ELSE ""

\* two postings have the same (url, company, title), each field as given
SameTriple(a, b) ==
  /\ FieldOrEmpty(a, "url") = FieldOrEmpty(b, "url")
  /\ FieldOrEmpty(a, "company") = FieldOrEmpty(b, "company")
  /\ FieldOrEmpty(a, "title") = FieldOrEmpty(b, "title")

\* position i of the collected batch is the first with its triple
FirstOccurrence(i) ==
  \A j \in 1..(i - 1) : ~SameTriple(heap[collected[j]], heap[collected[i]])

C2_DedupIdempotent ==
  pc = "deduplicated" =>
    /\ jobs = deduplicate_jobs(heap, collected)
    /\ deduplicate_jobs(heap, jobs) = jobs

\* C2 witness: the first application removed a duplicate and kept two postings.
C2_Witness ==
  /\ pc = "deduplicated"
  /\ Len(jobs) < Len(collected)
  /\ Len(jobs) >= 2

\* the four criteria of the filter for the posting a reference held when
\* filter_jobs was called
MeetsCriteria(id) ==
  LET p == filter_heap[id]
      td == <<get(p, "title", ""), get(p, "description", "")>>
  IN  /\ entry_level[td]
      /\ german_location[get(p, "location", "")]
      /\ is_recent(get(p, "posted_date", None), hours_back, filter_now)
      /\ keyword_set[td] # {}

\* l lists the elements of S, each once
ListsExactly(l, S) ==
  /\ Refs(l) = S
  /\ Len(l) = Cardinality(S)

\* C3: a posting is in the output of filter_jobs iff it is entry-level, in
\* Germany, recent and has a non-empty keyword match; every posting of the
\* output carries a non-empty keyword_matches list equal to that match result.
C3_FilterIffAllCriteria ==
  pc = "filtered" =>
    /\ \A i \in Positions(jobs) : (jobs[i] \in Refs(filtered_jobs)) <=> MeetsCriteria(jobs[i])
    /\ Refs(filtered_jobs) \subseteq Refs(jobs)
    /\ \A id \in Refs(filtered_jobs) :
          LET p == filter_heap[id]
          IN  /\ "keyword_matches" \in DOMAIN heap[id]
              /\ heap[id].keyword_matches # <<>>
              /\ ListsExactly(heap[id].keyword_matches,
                              keyword_set[<<get(p, "title", ""), get(p, "description", "")>>])

\* C3 witness: a filter pass that accepted a posting with two matches and
\* rejected another posting.
C3_Witness ==
  /\ pc = "filtered"
  /\ Len(filtered_jobs) >= 1
  /\ Len(filtered_jobs) < Len(jobs)
  /\ \E id \in Refs(filtered_jobs) : Len(heap[id].keyword_matches) = 2

\* how often a list holds a reference
Count(l, id) == Cardinality({ i \in Positions(l) : l[i] = id })

C5_RanksArePositions ==
  pc = "ranked" =>
    /\ Len(filtered_jobs) = Len(filter_out)
    /\ \A i \in Positions(filtered_jobs) :
          /\ "rank" \in DOMAIN heap[filtered_jobs[i]]
          /\ heap[filtered_jobs[i]].rank = i
    /\ { heap[id].rank : id \in Refs(filtered_jobs) } = 1..Len(filter_out)
    /\ Cardinality(Refs(filtered_jobs)) = Len(filter_out)

\* C5 witness: three postings ranked, in another order than they came in.
C5_Witness ==
  /\ pc = "ranked"
  /\ Len(filtered_jobs) = 3
  /\ filtered_jobs # filter_out

\* C6: rank_jobs returns a permutation of its input in non-increasing order of
\* the computed score; no posting is added or dropped.
C6_SortedByScoreDescending ==
  pc = "ranked" =>
    /\ \A id \in Refs(filter_out) : sort_key[id] = calculate_score(heap[id], rank_now)
    /\ \A i, j \in Positions(filtered_jobs) :
          i < j => sort_key[filtered_jobs[i]] >= sort_key[filtered_jobs[j]]
    /\ \A id \in DOMAIN heap : Count(filtered_jobs, id) = Count(filter_out, id)

\* C6 witness: the input held a lower score before a higher one, so the sort
\* had to move a posting.
C6_Witness ==
  /\ pc = "ranked"
  /\ \E i, j \in Positions(filter_out) :
        i < j /\ sort_key[filter_out[i]] < sort_key[filter_out[j]]

\* the position of a reference in a list that holds it once
PositionIn(l, id) == CHOOSE i \in Positions(l) : l[i] = id

\* C7: rank_jobs is stable: two postings with the same computed score are in
\* the output in the relative order they had in the input.
C7_EqualScoresKeepInputOrder ==
  pc = "ranked" =>
    \A i, j \in Positions(filtered_jobs) :
       (i < j /\ sort_key[filtered_jobs[i]] = sort_key[filtered_jobs[j]])
         => PositionIn(filter_out, filtered_jobs[i]) < PositionIn(filter_out, filtered_jobs[j])

\* C7 witness: input [B, C, A] where B and A have the same score and C a higher
\* one: the output is [C, B, A] with ranks 1, 2, 3.
C7_Witness ==
  /\ pc = "ranked"
  /\ Len(filter_out) = 3
  /\ sort_key[filter_out[1]] = sort_key[filter_out[3]]
  /\ sort_key[filter_out[2]] > sort_key[filter_out[1]]
  /\ filtered_jobs = <<filter_out[2], filter_out[1], filter_out[3]>>
  /\ heap[filter_out[1]].rank = 2
  /\ heap[filter_out[3]].rank = 3

\* the three groups of phrases the ranker looks for in a title
BonusPhrases ==
  << {"ai", "artificial intelligence"},
     {"data scientist", "data science"},
     {"machine learning", "ml engineer"} >>

\* for each title, the groups of which a phrase occurs in the lower-cased title
GroupsInTitle ==
  [title \in TitleSet |->
     { g \in 1..Len(BonusPhrases) :
         \E phrase \in BonusPhrases[g] : contains(lower(title), phrase) }]

\* C8: the score is 10 for each distinct keyword match, plus 5 for each of the
\* three phrase groups found in the lower-cased title (each at most once),
\* plus the recency bonus; 'Junior AI Engineer' with matches ['ai'] posted now
\* scores 35.
C8_ScoreIsSumOfTerms ==
  pc = "ranked" =>
    \A id \in Refs(filtered_jobs) :
       LET job == heap[id]
       IN  /\ sort_key[id] =
                  10 * Cardinality(Refs(job.keyword_matches))
                + 5 * Cardinality(GroupsInTitle[get(job, "title", "")])
                + recency_bonus(get(job, "posted_date", None), rank_now)
           /\ ( /\ get(job, "title", "") = "Junior AI Engineer"
                /\ job.keyword_matches = <<"ai">>
                /\ get(job, "posted_date", None) = datetime(rank_now) )
                => sort_key[id] = 35

\* C8 witness: 'Junior AI Engineer' with matches ['ai'], posted now, was
\* ranked with score 35.
C8_Witness ==
  /\ pc = "ranked"
  /\ \E id \in Refs(filtered_jobs) :
        /\ heap[id].title = "Junior AI Engineer"
        /\ heap[id].keyword_matches = <<"ai">>
        /\ get(heap[id], "posted_date", None) = datetime(rank_now)
        /\ sort_key[id] = 35

\* what the score holds besides the keyword and title terms
RecencyPart(id) ==
  sort_key[id] - 10 * Len(heap[id].keyword_matches)
               - title_bonus_of[get(heap[id], "title", "")]

\* C9: the recency bonus is one of 20, 15, 10, 0: 20 for an age under 1 hour,
\* 15 from 1 hour to under 6, 10 from 6 hours to under 12, and 0 from 12 hours
\* on or when posted_date is absent.
C9_RecencyBonusTiers ==
  pc = "ranked" =>
    \A id \in Refs(filtered_jobs) :
       LET posted_date == get(heap[id], "posted_date", None)
           age == rank_now - posted_date.ticks
       IN  /\ RecencyPart(id) \in {20, 15, 10, 0}
           /\ posted_date.type = "NoneType" => RecencyPart(id) = 0
           /\ posted_date.type = "datetime" =>
                /\ age < TicksPerHour => RecencyPart(id) = 20
                /\ (TicksPerHour <= age /\ age < 6 * TicksPerHour) => RecencyPart(id) = 15
                /\ (6 * TicksPerHour <= age /\ age < 12 * TicksPerHour) => RecencyPart(id) = 10
                /\ 12 * TicksPerHour <= age => RecencyPart(id) = 0

\* C9 witness: a posting exactly one hour old when ranked got 15.
C9_Witness ==
  /\ pc = "ranked"
  /\ \E id \in Refs(filtered_jobs) :
        /\ get(heap[id], "posted_date", None).type = "datetime"
        /\ rank_now - heap[id].posted_date.ticks = TicksPerHour
        /\ RecencyPart(id) = 15

\* whether a configured level marker occurs, case-insensitively, in
\* title + ' ' + description
HasLevelMarker ==
  [td \in TitleDescriptions |->
     \E i \in 1..Len(JOB_LEVEL_KEYWORDS) :
        contains(lower(td[1] \o " " \o td[2]), lower(JOB_LEVEL_KEYWORDS[i]))]

\* whether one of the seniority markers occurs in title + ' ' + description
HasSeniorityMarker ==
  [td \in TitleDescriptions |->
     \E marker \in {"senior", "lead", "principal", "architect", "manager"} :
        contains(lower(td[1] \o " " \o td[2]), marker)]

\* the title and description of a posting as filter_jobs passes them on
TitleDescription(p) == <<get(p, "title", ""), get(p, "description", "")>>

\* C10: is_entry_level is true iff a configured level marker occurs as a
\* case-insensitive substring of title + ' ' + description; the seniority
\* markers never change the result: with 'senior' and 'junior' the posting is
\* entry-level, 'Senior Data Scientist' without a marker is not.
C10_EntryLevelIffMarker ==
  pc = "filtered" =>
    /\ \A id \in Refs(jobs) :
          /\ entry_level[TitleDescription(filter_heap[id])]
               = HasLevelMarker[TitleDescription(filter_heap[id])]
          /\ id \in Refs(filtered_jobs) => HasLevelMarker[TitleDescription(filter_heap[id])]
    /\ entry_level[<<"Senior/Junior Data Scientist", "">>]
    /\ ~entry_level[<<"Senior Data Scientist", "">>]

\* C10 witness: a posting with both a seniority marker and a level marker
\* passed the filter.
C10_Witness ==
  /\ pc = "filtered"
  /\ \E id \in Refs(filtered_jobs) :
        /\ HasSeniorityMarker[TitleDescription(filter_heap[id])]
        /\ HasLevelMarker[TitleDescription(filter_heap[id])]

\* the locations of the postings
LocationSet == { get(p, "location", "") : p \in AllPostings }

\* name occurs in location as a substring, the case of letters ignored
OccursIgnoringCase(name, location) ==
  \E i \in 1..Len(location) :
     /\ i + Len(name) - 1 <= Len(location)
     /\ lower(SubSeq(location, i, i + Len(name) - 1)) = lower(name)

\* whether one of the enumerated names occurs in the location
GermanNameOccurs ==
  [location \in LocationSet |->
     \E n \in Positions(german_states) : OccursIgnoringCase(german_states[n], location)]

\* C11: is_german_location is true iff one of the enumerated German state
\* names or 'Germany', 'Deutschland', 'DE' occurs in the location as a
\* case-insensitive substring; 'Paris, France' is not German and a posting
\* located there is excluded by filter_jobs whatever its other fields.
C11_GermanIffNameOccurs ==
  pc = "filtered" =>
    \A id \in Refs(collected) :
       LET location == FieldOrEmpty(filter_heap[id], "location")
       IN  /\ german_location[location] = GermanNameOccurs[location]
           /\ id \in Refs(filter_out) => GermanNameOccurs[location]
           /\ location = "Paris, France" =>
                 /\ ~german_location[location]
                 /\ id \notin Refs(filter_out)

\* a posting in Paris that meets the three other criteria has been rejected
C11_Witness ==
  /\ pc = "filtered"
  /\ filter_out = <<>>
  /\ \E id \in Refs(collected) :
        LET p == filter_heap[id]
        IN  /\ FieldOrEmpty(p, "location") = "Paris, France"
            /\ entry_level[TitleDescription(p)]
            /\ keyword_set[TitleDescription(p)] # {}
            /\ is_recent(get(p, "posted_date", None), hours_back, filter_now)

\* word occurs in text at position i with no word character next to it
WholeTokenAt(word, text, i) ==
  /\ i + Len(word) - 1 <= Len(text)
  /\ SubSeq(text, i, i + Len(word) - 1) = word
  /\ i = 1 \/ SubSeq(text, i - 1, i - 1) \notin WordChars
  /\ \/ i + Len(word) - 1 = Len(text)
     \/ SubSeq(text, i + Len(word), i + Len(word)) \notin WordChars

\* the case-folded keywords of a configuration that occur as a whole token in
\* title + ' ' + description, the case of letters ignored
WholeTokens(configured, title, description) ==
  LET text == lower(title \o " " \o description)
  IN  { lower(configured[k]) : k \in
          { n \in Positions(configured) :
              \E i \in 1..Len(text) : WholeTokenAt(lower(configured[n]), text, i) } }

WholeTokenKeywords ==
  [td \in TitleDescriptions |-> WholeTokens(TECHNICAL_KEYWORDS, td[1], td[2])]

\* a configuration with keywords that differ only by case
MixedCaseKeywords == << "AI", "ai", "Python", "PYTHON" >>

\* what a JobFilter configured with MixedCaseKeywords can return
MixedCaseMatches ==
  [td \in TitleDescriptions |->
     list_of_set(set_of(matches_from(lower_all(MixedCaseKeywords),
                                     job_text(td[1], td[2]), 1)))]

MixedCaseWholeTokens ==
  [td \in TitleDescriptions |-> WholeTokens(MixedCaseKeywords, td[1], td[2])]

\* 'ai' occurs in title + ' ' + description, but only inside longer words
AiOnlyInsideWords ==
  [td \in TitleDescriptions |->
     LET text == lower(td[1] \o " " \o td[2])
     IN  /\ contains(text, "ai")
         /\ ~\E i \in 1..Len(text) : WholeTokenAt("ai", text, i)]

\* C12: matches_technical_keywords returns, each once, exactly the configured
\* technical keywords (case-folded) that occur as a whole token in
\* title + ' ' + description, case-insensitively; a keyword that occurs only
\* inside a longer word ('ai' in 'trainee') is not returned, and configured
\* keywords that differ only by case give a single entry.
C12_MatchesAreWholeTokens ==
  pc = "filtered" =>
    \A id \in Refs(collected) :
       LET td == TitleDescription(filter_heap[id])
       IN  /\ \A l \in matches_technical_keywords(td[1], td[2]) :
                 ListsExactly(l, WholeTokenKeywords[td])
           /\ id \in Refs(filter_out) =>
                 ListsExactly(heap[id].keyword_matches, WholeTokenKeywords[td])
           /\ AiOnlyInsideWords[td] =>
                 \A l \in matches_technical_keywords(td[1], td[2]) : "ai" \notin Refs(l)
           /\ \A l \in MixedCaseMatches[td] :
                 ListsExactly(l, MixedCaseWholeTokens[td])

\* 'Python Trainee' has been accepted with the one match 'python', and the
\* mixed-case configuration gives that one entry too
C12_Witness ==
  /\ pc = "filtered"
  /\ \E id \in Refs(filter_out) :
        /\ filter_heap[id].title = "Python Trainee"
        /\ heap[id].keyword_matches = << "python" >>
        /\ AiOnlyInsideWords[TitleDescription(filter_heap[id])]
        /\ MixedCaseMatches[TitleDescription(filter_heap[id])] = { << "python" >> }

\* the windows is_recent is asked about
WindowHours == 0..hours_back

\* the posted_date filter_jobs read from a posting
PostedDate(id) == get(filter_heap[id], "posted_date", None)

\* the three criteria of filter_jobs other than the temporal one
MeetsOtherCriteria(id) ==
  LET td == TitleDescription(filter_heap[id])
  IN  /\ entry_level[td]
      /\ german_location[FieldOrEmpty(filter_heap[id], "location")]
      /\ keyword_set[td] # {}

\* C13: is_recent is true for every window when posted_date is absent
\* (None), so a posting without a date is never excluded by the temporal
\* criterion of filter_jobs.
C13_NoDateIsRecent ==
  pc = "filtered" =>
    \A id \in Refs(collected) :
       PostedDate(id).type = "NoneType" =>
         /\ \A h \in WindowHours : is_recent(PostedDate(id), h, filter_now)
         /\ id \in Refs(filter_out) <=> MeetsOtherCriteria(id)

\* a posting without a date has been accepted
C13_Witness ==
  /\ pc = "filtered"
  /\ \E id \in Refs(filter_out) : PostedDate(id).type = "NoneType"

\* C14: with a valid timestamp is_recent is true iff
\* posted_date >= now - window_hours: a date exactly window_hours old is
\* recent, a date one tick older is not, and every future date is recent.
C14_RecentIffNotBeforeCutoff ==
  pc = "filtered" =>
    \A id \in Refs(collected) :
       PostedDate(id).type = "datetime" =>
         LET age == filter_now - PostedDate(id).ticks
         IN  /\ \A h \in WindowHours :
                   /\ is_recent(PostedDate(id), h, filter_now) <=> age <= h * TicksPerHour
                   /\ is_recent(datetime(filter_now - h * TicksPerHour), h, filter_now)
                   /\ ~is_recent(datetime(filter_now - h * TicksPerHour - 1), h, filter_now)
             /\ age < 0 => \A h \in WindowHours : is_recent(PostedDate(id), h, filter_now)
             /\ MeetsOtherCriteria(id) =>
                   (id \in Refs(filter_out) <=> age <= hours_back * TicksPerHour)

\* a posting dated exactly hours_back before the filter's clock reading has
\* been accepted
C14_Witness ==
  /\ pc = "filtered"
  /\ \E id \in Refs(filter_out) :
        /\ PostedDate(id).type = "datetime"
        /\ filter_now - PostedDate(id).ticks = hours_back * TicksPerHour

\* C15: when comparing posted_date with the cutoff fails (a value that is
\* not a timestamp), is_recent returns true and raises nothing, so the
\* posting is not excluded by the temporal criterion.
C15_FailedComparisonIsRecent ==
  pc = "filtered" =>
    \A id \in Refs(collected) :
       PostedDate(id).type = "str" =>
         /\ \A h \in WindowHours : is_recent(PostedDate(id), h, filter_now)
         /\ id \in Refs(filter_out) <=> MeetsOtherCriteria(id)

\* a posting whose posted_date is a raw string has been accepted
C15_Witness ==
  /\ pc = "filtered"
  /\ \E id \in Refs(filter_out) :
        /\ PostedDate(id).type = "str"
        /\ PostedDate(id).value # ""

\* filter_jobs accepted a posting whose posted_date is not a timestamp
AcceptedWithoutComparableDate ==
  /\ pc \notin {"search", "deduplicated"}
  /\ \E id \in Refs(filter_out) : PostedDate(id).type = "str"

\* C16: a timestamp-comparison failure is never propagated as a hard error:
\* once filter_jobs has accepted a posting whose posted_date cannot be
\* compared with the clock, rank_jobs and clean_job_data complete without
\* raising, so the run never ends in the failed state instead of reaching
\* the export step.
C16_ComparisonFailureNeverFatal ==
  AcceptedWithoutComparableDate => pc # "failed"

\* the order in which run() goes through its steps
StageOrder ==
  { <<"search", "deduplicated">>, <<"deduplicated", "filtered">>,
    <<"filtered", "ranked">>, <<"filtered", "failed">>,
    <<"ranked", "cleaned">>, <<"cleaned", "done">> }

\* the posting rank_jobs put at position i
RankedAt(i) == CHOOSE id \in Refs(filter_out) : get(heap[id], "rank", 0) = i

\* what each stage worked on is what the stage before it returned
ConsumesPreviousOutput ==
  /\ pc # "search" => Refs(jobs) \subseteq Refs(collected)
  /\ pc \notin {"search", "deduplicated"} => Refs(filter_out) \subseteq Refs(jobs)
  /\ pc = "ranked" => ListsExactly(filtered_jobs, Refs(filter_out))
  /\ pc = "cleaned" =>
        /\ Len(filtered_jobs) = Len(filter_out)
        /\ \A i \in Positions(filtered_jobs) :
              /\ \E id \in Refs(filter_out) : get(heap[id], "rank", 0) = i
              /\ heap[filtered_jobs[i]] = clean_job_data(heap[RankedAt(i)])
  /\ export_calls # <<>> => pc = "done"

\* C17: the stages run in the fixed order deduplicate, filter, rank,
\* normalize, each on exactly what the stage before returned, and an exporter
\* is called only after the clean loop has gone through every ranked posting.
C17_StagesInOrder ==
  [][ /\ pc' # pc => <<pc, pc'>> \in StageOrder
      /\ ConsumesPreviousOutput'
      /\ pc' = "done" =>
            /\ heap' = heap
            /\ \A k \in Positions(export_calls') : export_calls'[k].jobs = filtered_jobs
    ]_vars

\* two postings that the ranking reordered have been cleaned and handed to an
\* exporter
C17_Witness ==
  /\ pc = "done"
  /\ export_calls # <<>>
  /\ Len(filter_out) >= 2
  /\ RankedAt(1) # filter_out[1]

\* C18: every cleaned posting handed to an exporter carries a rank field, an
\* integer >= 1 that equals its position in the list handed over (so the
\* ranks of one list are unique and dense).
C18_ExportedCarryRank ==
  \A k \in Positions(export_calls) :
     \A i \in Positions(export_calls[k].jobs) :
        LET cleaned == heap[export_calls[k].jobs[i]]
        IN  /\ "rank" \in DOMAIN cleaned
            /\ cleaned["rank"] = i

\* every character of s from position a to position b is white space
BlankBetween(s, a, b) == \A k \in a..b : SubSeq(s, k, k) \in WhiteSpace

\* r is s without the white space at its two ends
TrimOf(r, s) ==
  \E i \in 1..(Len(s) + 1) :
     /\ i + Len(r) - 1 <= Len(s)
     /\ r = SubSeq(s, i, i + Len(r) - 1)
     /\ BlankBetween(s, 1, i - 1)
     /\ BlankBetween(s, i + Len(r), Len(s))
     /\ r # "" => /\ SubSeq(r, 1, 1) \notin WhiteSpace
                  /\ SubSeq(r, Len(r), Len(r)) \notin WhiteSpace

\* the parts of s: s from position i to position j, and the empty text
Slices(s) == { SubSeq(s, i, j) : i \in 1..Len(s), j \in 1..Len(s) } \cup { "" }

\* each text clean_job_data can meet, without the white space at its ends
Trimmed ==
  [text \in { FieldOrEmpty(p, key) : p \in AllPostings,
                                     key \in {"company", "title", "url"} } |->
     CHOOSE r \in Slices(text) : TrimOf(r, text)]

RECURSIVE LengthBefore(_, _)
\* the length of the first i - 1 entries of l, each followed by ', '
LengthBefore(l, i) ==
  IF i = 1 THEN 0 ELSE LengthBefore(l, i - 1) + Len(l[i - 1]) + 2

\* text is the entries of l in order, with ', ' between neighbours
CommaSeparated(text, l) ==
  IF l = <<>> THEN text = ""
  ELSE /\ Len(text) = LengthBefore(l, Len(l)) + Len(l[Len(l)])
       /\ \A i \in Positions(l) :
             LET first == LengthBefore(l, i) + 1
                 last == LengthBefore(l, i) + Len(l[i])
             IN  /\ SubSeq(text, first, last) = l[i]
                 /\ i < Len(l) => SubSeq(text, last + 1, last + 2) = ", "

\* c is the cleaned record of posting p
CleanedFrom(c, p) ==
  /\ DOMAIN c = { "company_name", "job_title", "job_url", "posted_date",
                  "job_board", "location", "job_level", "keyword_matches" }
  /\ c.company_name = Trimmed[FieldOrEmpty(p, "company")]
  /\ c.job_title = Trimmed[FieldOrEmpty(p, "title")]
  /\ c.job_url = Trimmed[FieldOrEmpty(p, "url")]
  /\ c.job_board = IF "board" \in DOMAIN p THEN p.board ELSE "Unknown"
  /\ c.location = IF "location" \in DOMAIN p THEN p.location ELSE "Unknown"
  /\ c.job_level = "Entry Level / Junior"
  /\ CommaSeparated(c.keyword_matches,
                    IF "keyword_matches" \in DOMAIN p THEN p.keyword_matches ELSE <<>>)

\* the posting and the posting with its board or its location left out
WithMissingFields(p) == { p, without(p, "board"), without(p, "location") }

\* C19: clean_job_data maps each posting to exactly one cleaned record,
\* nothing filtered, reordered or scored: company_name, job_title and job_url
\* are the trimmed company, title and url; job_board and location are the
\* board and the location, or 'Unknown' when absent; job_level is
\* 'Entry Level / Junior'; keyword_matches is the match list joined with
\* commas; the input posting stays as it was.
C19_CleanIsFieldRemapping ==
  [][ (pc = "ranked" /\ pc' = "cleaned") =>
        /\ Len(filtered_jobs') = Len(filtered_jobs)
        /\ \A i \in Positions(filtered_jobs) :
              /\ filtered_jobs'[i] \notin DOMAIN heap
              /\ CleanedFrom(heap'[filtered_jobs'[i]], heap[filtered_jobs[i]])
        /\ \A i, j \in Positions(filtered_jobs) :
              i # j => filtered_jobs'[i] # filtered_jobs'[j]
        /\ \A id \in DOMAIN heap :
              /\ heap'[id] = heap[id]
              /\ \A p \in WithMissingFields(heap[id]) : CleanedFrom(clean_job_data(p), p)
    ]_vars

\* the clean loop has trimmed a company name and joined two matches
C19_Witness ==
  /\ pc = "cleaned"
  /\ \E i \in Positions(filtered_jobs) :
        /\ heap[RankedAt(i)].company = "Acme "
        /\ heap[filtered_jobs[i]].company_name = "Acme"
  /\ \E i \in Positions(filtered_jobs) :
        /\ Len(heap[RankedAt(i)].keyword_matches) = 2
        /\ contains(heap[filtered_jobs[i]].keyword_matches, ", ")

\* dict after has every field of dict before with the same value, and no
\* other field than those and the ones named
OnlyAdds(after, before, added) ==
  /\ DOMAIN before \subseteq DOMAIN after
  /\ \A k \in DOMAIN before : after[k] = before[k]
  /\ DOMAIN after \ DOMAIN before = added

FilledWith(p, defaults) ==
  [k \in DOMAIN p \cup DOMAIN defaults |-> IF k \in DOMAIN p THEN p[k] ELSE defaults[k]]

\* every text field empty, no date
EmptyDefaults ==
  [title |-> "", description |-> "", company |-> "", url |-> "",
   location |-> "", board |-> "", posted_date |-> None]

\* the same, but 'Unknown' for board and location
UnknownDefaults ==
  [title |-> "", description |-> "", company |-> "", url |-> "",
   location |-> "Unknown", board |-> "Unknown", posted_date |-> None]

\* a run has failed only when an accepted posting has a non-empty text as its
\* date; deduplicate_jobs, filter_jobs and rank_jobs treat a posting as they
\* treat it with its missing fields empty and its missing date None; and
\* clean_job_data treats it as with its missing fields set to cleanDefaults
MissingFieldsHandled(cleanDefaults) ==
  /\ pc = "failed" =>
        \E id \in Refs(filter_out) :
           PostedDate(id).type = "str" /\ PostedDate(id).value # ""
  /\ pc = "filtered" =>
        \A id \in Refs(collected) :
           LET p == filter_heap[id]
               filled == FilledWith(p, EmptyDefaults)
           IN  /\ identifier(p) = identifier(filled)
               /\ passes_checks(p, hours_back, filter_now)
                     = passes_checks(filled, hours_back, filter_now)
               /\ keyword_set[TitleDescription(p)] = keyword_set[TitleDescription(filled)]
               /\ id \in Refs(filter_out) <=> MeetsCriteria(id)
  /\ pc = "ranked" =>
        \A id \in Refs(filtered_jobs) :
           sort_key[id] = calculate_score(FilledWith(heap[id], EmptyDefaults), rank_now)
  /\ pc = "cleaned" =>
        \A i \in Positions(filtered_jobs) :
           heap[filtered_jobs[i]]
             = clean_job_data(FilledWith(heap[RankedAt(i)], cleanDefaults))

\* C21 as stated: a posting that lacks any of title, company, url, location,
\* posted_date, board, description makes no stage raise, and every stage,
\* clean_job_data included, treats each absent text field as the empty string
\* and an absent date as no date.
C21_MissingFieldsAreEmpty == MissingFieldsHandled(EmptyDefaults)

\* C21, amended: such a posting makes no stage raise; deduplicate_jobs,
\* filter_jobs and rank_jobs read an absent text field as the empty string
\* and an absent date as no date, and so does clean_job_data for company,
\* title and url, while it gives an absent board or location the value
\* 'Unknown'.
C21_MissingFieldsNeverFatal == MissingFieldsHandled(UnknownDefaults)

\* a posting without company, url, board and posted_date has been accepted,
\* ranked and cleaned
C21_Witness ==
  /\ pc = "cleaned"
  /\ \E i \in Positions(filtered_jobs) :
        /\ DOMAIN heap[RankedAt(i)] \cap {"company", "url", "board", "posted_date"} = {}
        /\ heap[filtered_jobs[i]].company_name = ""
        /\ heap[filtered_jobs[i]].job_board = "Unknown"

\* filter_jobs was given an entry-level posting whose location is not a str
TypeViolationMet ==
  /\ pc \notin {"search", "deduplicated"}
  /\ \E id \in Refs(jobs) :
        /\ FieldOrEmpty(filter_heap[id], "location") = NOT_A_STR
        /\ entry_level[TitleDescription(filter_heap[id])]

\* C22: a type violation met while a stage processes a posting (a location
\* that is not a string) is propagated to the caller as a fatal failure: the
\* run fails, the posting is never silently dropped with the run going on.
C22_TypeViolationIsFatal ==
  TypeViolationMet => pc = "failed"

\* filter_jobs has run and no posting of its input met the four criteria
NothingPasses ==
  /\ pc \notin {"search", "deduplicated"}
  /\ \A id \in Refs(jobs) : ~MeetsCriteria(id)

\* C23: when no posting of the batch passes (the empty batch included),
\* filter_jobs, rank_jobs and the clean loop each return the empty list, each
\* of them completes, and the run does not enter the failed state.
C23_EmptyOutputIsNoError ==
  NothingPasses =>
    /\ filter_out = <<>>
    /\ filtered_jobs = <<>>
    /\ pc # "failed"
    /\ Len(heap) = Len(filter_heap)
    /\ pc = "filtered" => ENABLED RankJobs
    /\ pc = "ranked" => ENABLED CleanJobs

\* a batch of postings none of which passes has gone through the clean loop
C23_Witness ==
  /\ NothingPasses
  /\ collected # <<>>
  /\ pc = "cleaned"
  /\ filtered_jobs = <<>>

\* the output of filter_jobs holds a posting with the triple of position i
TripleInOutput(i) ==
  \E id \in Refs(filter_out) : SameTriple(filter_heap[id], filter_heap[collected[i]])

CleanedTriple(c) == << c.job_url, c.company_name, c.job_title >>

\* C25 as stated: no two records of the cleaned output have the same
\* (job_url, company_name, job_title).
C25_CleanedTriplesDistinct ==
  pc = "cleaned" =>
    \A i, j \in Positions(filtered_jobs) :
       i # j => CleanedTriple(heap[filtered_jobs[i]]) # CleanedTriple(heap[filtered_jobs[j]])

\* C25, amended: no two records of the cleaned output come from postings with
\* the same (url, company, title) as given; two records have the same
\* (job_url, company_name, job_title) only when the triples given differ in
\* white space at the ends of a field, which clean_job_data strips.
C25_GivenTriplesDistinct ==
  pc = "cleaned" =>
    \A i, j \in Positions(filtered_jobs) :
       i # j =>
         LET a == heap[RankedAt(i)]
             b == heap[RankedAt(j)]
         IN  /\ ~SameTriple(a, b)
             /\ CleanedTriple(heap[filtered_jobs[i]]) = CleanedTriple(heap[filtered_jobs[j]])
                   <=> /\ Trimmed[FieldOrEmpty(a, "url")] = Trimmed[FieldOrEmpty(b, "url")]
                       /\ Trimmed[FieldOrEmpty(a, "company")] = Trimmed[FieldOrEmpty(b, "company")]
                       /\ Trimmed[FieldOrEmpty(a, "title")] = Trimmed[FieldOrEmpty(b, "title")]

\* 'Acme' and 'Acme ' were both kept, accepted and cleaned to the same triple
C25_Witness ==
  /\ pc = "cleaned"
  /\ \E i, j \in Positions(filtered_jobs) :
        /\ i # j
        /\ heap[RankedAt(i)].company = "Acme"
        /\ heap[RankedAt(j)].company = "Acme "
        /\ CleanedTriple(heap[filtered_jobs[i]]) = CleanedTriple(heap[filtered_jobs[j]])

\* the requests among the events of a fetch_page call
Requests(evs) == SelectSeq(evs, LAMBDA e : e.kind = "request")

\* the request went through
Succeeded(e) == e.kind = "request" /\ e.detail = "ok"

\* the request failed with a requests.RequestException
FailedWithRequestError(e) == e.kind = "request" /\ e.detail \in RequestErrors

\* the call was not left by an exception other than a RequestException
NoOtherError(evs) == \A i \in 1..Len(evs) : evs[i].kind = "request" => evs[i].detail # "Exception"

\* the events of a call, over or not, are requests with the waits between them
WellRetried(evs) ==
  /\ Len(Requests(evs)) <= retry_attempts
  /\ \A i \in 1..Len(evs) : Succeeded(evs[i]) => i = Len(evs)
  /\ \A i \in 1..Len(evs) :
        evs[i].kind = "sleep" =>
          /\ evs[i].detail = retry_delay
          /\ i > 1
          /\ FailedWithRequestError(evs[i - 1])
          /\ Len(Requests(SubSeq(evs, 1, i))) < retry_attempts
          /\ i < Len(evs) => evs[i + 1].kind = "request"
  /\ \A i \in 1..(Len(evs) - 1) :
        evs[i].kind = "request" => evs[i + 1].kind = "sleep"

\* C26: a fetch_page call makes at most retry_attempts requests; a request
\* that goes through is the last event of the call and its response is what
\* the call returns; every wait lasts retry_delay and stands between a request
\* that failed with a request error and the next request, so no call ends on a
\* wait; and the call returns None exactly when retry_attempts requests were
\* made and every one failed with a request error.
C26_FetchPageRetries ==
  /\ WellRetried(events)
  /\ fetch_pc = "request" => (events = <<>> \/ events[Len(events)].kind = "sleep")
  /\ fetch_pc = "sleep" => (events # <<>> /\ FailedWithRequestError(events[Len(events)]))
  /\ \A k \in 1..Len(fetch_calls) :
        LET c == fetch_calls[k]
            last == c.events[Len(c.events)]
        IN  /\ WellRetried(c.events)
            /\ c.events # <<>>
            /\ last.kind = "request"
            /\ Succeeded(last) <=> c.result = Response(c.url, last.attempt)
            /\ c.result.type = "Response" => Succeeded(last)
            /\ c.result = None <=>
                 /\ Len(Requests(c.events)) = retry_attempts
                 /\ \A i \in 1..Len(c.events) :
                       c.events[i].kind = "request" => FailedWithRequestError(c.events[i])

\* one call returned None after retry_attempts failed requests with a wait
\* after each but the last, another returned the response of its second request
C26_Witness ==
  /\ \E k \in 1..Len(fetch_calls) :
        /\ fetch_calls[k].result = None
        /\ Len(fetch_calls[k].events) = 2 * retry_attempts - 1
  /\ \E k \in 1..Len(fetch_calls) :
        /\ fetch_calls[k].result = Response(fetch_calls[k].url, 1)
        /\ Len(fetch_calls[k].events) = 3

\* C27: _export_results calls no exporter and returns None when there are no
\* filtered jobs; otherwise the first call is the Excel export, and when it
\* returned a path that path is returned and no CSV export is made; a CSV
\* export is made only right after an Excel export that returned None, its
\* result is then what is returned, and None is returned only when both
\* exports returned None.
C27_ExcelFirstThenCsv ==
  pc = "done" =>
    IF filtered_jobs = <<>>
      THEN export_calls = <<>> /\ export_path = None
      ELSE /\ Len(export_calls) \in {1, 2}
           /\ export_calls[1].exporter = "excel"
           /\ \A k \in 1..Len(export_calls) : export_calls[k].jobs = filtered_jobs
           /\ truthy(export_calls[1].path) =>
                Len(export_calls) = 1 /\ export_path = export_calls[1].path
           /\ \A k \in 1..Len(export_calls) :
                 export_calls[k].exporter = "csv" =>
                   /\ k = 2
                   /\ export_calls[1].path = None
                   /\ export_path = export_calls[2].path
           /\ export_calls[1].path = None => Len(export_calls) = 2
           /\ export_path = None =>
                \A k \in 1..Len(export_calls) : export_calls[k].path = None

\* the Excel export returned None and the CSV export, made after it, a path
C27_Witness ==
  /\ pc = "done"
  /\ Len(export_calls) = 2
  /\ export_calls[1].path = None
  /\ export_calls[2].exporter = "csv"
  /\ export_path = str(csv_filename)

\* run() and main() have returned
Exited == pc \in {"done", "failed"}

\* what main() returns, given what run() returned
ExitReported ==
  IF Exited
    THEN /\ exit_status \in {int(0), int(1)}
         /\ exit_status = int(0) <=> export_path \in {str(excel_filename), str(csv_filename)}
         /\ pc = "failed" =>
              export_path = None /\ exit_status = int(1) /\ export_calls = <<>>
         /\ (pc = "done" /\ filter_out = <<>>) =>
              export_path = None /\ exit_status = int(1) /\ export_calls = <<>>
    ELSE exit_status = NotReturned /\ export_path = NotReturned

\* C28: main returns 0 exactly when run returned an export path; when a step
\* raised, run returns None, main returns 1 and no later step is executed
\* (nothing is exported, no step follows); when no posting survived the
\* filter, run returns None and main returns 1 as well.
C28_ExitStatusFollowsExport == [][pc # "failed" /\ ExitReported']_vars

\* no posting passed the filter: the run went through every step, exported
\* nothing and main returned 1
C28_Witness ==
  /\ pc = "done"
  /\ collected # <<>>
  /\ filter_out = <<>>
  /\ export_path = None
  /\ exit_status = int(1)

\* how often a reference occurs in a list
Occurrences(list, ref) == Cardinality({ i \in 1..Len(list) : list[i] = ref })

\* the orchestrator has extended JobFinder.jobs with the list of scraper n
Extended(n) == search_pc.scraper > n \/ search_pc.at = "done"

\* C29: every posting a search call returned is in that scraper's jobs list
\* exactly once, and in JobFinder.jobs exactly once from the moment the
\* orchestrator has extended JobFinder.jobs with that list (not at all
\* before); so when steps 1 and 2 are over, before deduplication,
\* JobFinder.jobs holds every posting returned exactly once and nothing else.
C29_ReturnedPostingsCollectedOnce ==
  /\ \A k \in 1..Len(search_calls) :
        LET c == search_calls[k]
        IN  \A i \in 1..Len(c.jobs) :
               /\ Occurrences(scraper_jobs[c.scraper], c.jobs[i]) = 1
               /\ Occurrences(jobs, c.jobs[i]) = IF Extended(c.scraper) THEN 1 ELSE 0
  /\ \A i \in 1..Len(jobs) :
        \E k \in 1..Len(search_calls) :
           \E j \in 1..Len(search_calls[k].jobs) : search_calls[k].jobs[j] = jobs[i]

\* steps 1 and 2 are over; a board search returned two postings, the company
\* scraper returned postings from two companies, and all are in JobFinder.jobs
C29_Witness ==
  /\ search_pc.at = "done"
  /\ \E k \in 1..Len(search_calls) :
        /\ Scrapers[search_calls[k].scraper] = "linkedin_scraper"
        /\ Len(search_calls[k].jobs) = 2
  /\ \E k, l \in 1..Len(search_calls) :
        /\ k # l
        /\ Scrapers[search_calls[k].scraper] = "company_scraper"
        /\ Scrapers[search_calls[l].scraper] = "company_scraper"
        /\ search_calls[k].jobs # <<>>
        /\ search_calls[l].jobs # <<>>
  /\ Len(jobs) >= 4

\* the two keywords of the AI title bonus
AiKeywords == {"ai", "artificial intelligence"}

\* the part of a ranked posting's score that is the AI title bonus
AiBonus(id) ==
  sort_key[id] - 10 * Len(heap[id].keyword_matches)
               - recency_bonus(get(heap[id], "posted_date", None), rank_now)
               - 5 * Cardinality(GroupsInTitle[get(heap[id], "title", "")] \ {1})

\* keyword_matches holds 'ai' or 'artificial intelligence'
HasAiMatch(id) ==
  \E k \in Positions(heap[id].keyword_matches) :
     heap[id].keyword_matches[k] \in AiKeywords

\* for each title, whether an AI keyword occurs in it, the case of letters
\* ignored: anywhere, and as a whole word
AiInTitle ==
  [title \in TitleSet |->
     [anywhere |-> \E w \in AiKeywords : OccursIgnoringCase(w, title),
      whole    |-> \E w \in AiKeywords :
                      \E i \in 1..Len(title) : WholeTokenAt(w, lower(title), i)]]

\* C30 as stated: a posting gets the +5 AI title bonus only if its
\* keyword_matches holds 'ai' or 'artificial intelligence'.
C30_AiBonusOnlyWithAiMatch ==
  pc = "ranked" =>
    \A id \in Refs(filtered_jobs) : AiBonus(id) = 5 => HasAiMatch(id)

\* C30, amended: a posting gets the +5 AI title bonus iff its lower-cased
\* title contains 'ai' or 'artificial intelligence' as a substring; when one
\* of them is a whole word of the title the posting has both the bonus and the
\* keyword in keyword_matches, but 'ai' inside a longer word of the title
\* ('Trainee') gives the bonus as well, with or without such a match.
C30_AiBonusIffAiInTitle ==
  pc = "ranked" =>
    \A id \in Refs(filtered_jobs) :
       LET title == get(heap[id], "title", "")
       IN  /\ AiBonus(id) \in {0, 5}
           /\ AiBonus(id) = 5 <=> AiInTitle[title].anywhere
           /\ AiInTitle[title].whole => (AiBonus(id) = 5 /\ HasAiMatch(id))

\* 'Python Trainee' was ranked with the AI title bonus and has neither
\* keyword among its matches
C30_Witness ==
  /\ pc = "ranked"
  /\ \E id \in Refs(filtered_jobs) :
        /\ get(heap[id], "title", "") = "Python Trainee"
        /\ AiBonus(id) = 5
        /\ ~HasAiMatch(id)
====
